---- MODULE Spec2Model ----
(***************************************************************************)
(* Model of the action-execution engine of simple-image-click              *)
(* (src/main.py): the ExecutionState run tracker, the FastAPI handlers     *)
(* that claim, cancel and poll it on the event loop, and the background    *)
(* worker thread run_actions_in_background with its action handlers.       *)
(*                                                                         *)
(* The async handlers contain no await, so the event loop runs them one    *)
(* at a time; the worker thread interleaves with them statement by         *)
(* statement.  Outcomes are modelled by their "status" tag; the message    *)
(* text is left out.                                                       *)
(***************************************************************************)
EXTENDS Integers, Sequences, FiniteSets, TLC

VARIABLES
    \* ---- ExecutionState (main.py 25-34) and the legacy global flag (78)
    is_running, abort_flag, execution_id, current_step, total_steps,
    results, completed, lock, execution_abort_flag,
    \* ---- the event loop: the handler in progress and its locals
    hpc, hreq, snap, requests,
    \* ---- the worker thread of run_actions_in_background
    threads, wpc, req, i, action_type, action_dict, result, after, src, polls,
    li,
    \* ---- history of the current run (not program state)
    origin, invoked, raised, slept, observed, unlocked, late,
    \* ---- execute_click on its own (used by SpecClick)
    ck

esvars == <<is_running, abort_flag, execution_id, current_step, total_steps,
            results, completed>>
loopvars == <<hpc, hreq, snap, requests>>
workervars == <<threads, wpc, req, i, action_type, action_dict, result, after,
                src, polls, li>>
histvars == <<origin, invoked, raised, slept, observed, unlocked, late>>
vars == <<esvars, lock, execution_abort_flag, loopvars, workervars, histvars, ck>>

----------------------------------------------------------------------------
\* Bounds of the model
MaxActions == 2      \* longest submitted action list
MaxRequests == 2     \* POST /api/execute requests in one behaviour
MaxPolls == 1        \* polling iterations a wait handler makes before its timeout
MaxWaitPolls == 2    \* the same, where only the wait handlers are dispatched
\* Program constants
LoopCountDefault == 30   \* action_dict.get("loop_count", 30)
LoopIntervalDefault == 10 \* action_dict.get("loop_interval", 10)
ProgressEvery == 10      \* (i + 1) % 10 == 0
\* line 530, in thousandths: the thresholds of the diagnostic pass
test_confidences == <<700, 600, 500, 400, 300>>

\* ActionItem.type: the nine kinds the executor knows, and one it does not
Kinds == {"click", "click_or", "paste", "wait", "wait_disappear", "wait_seconds",
          "pagedown", "save_to_file", "loop_click", "unknown"}

\* ExecuteRequest bodies a client can post.  The request is immutable and the
\* program reads it piecemeal: its length in start(), start_delay at line 405,
\* each action's type at line 423.  The model keeps the length and draws the
\* other parts where the program first reads them.
ActionCounts == 1..MaxActions
StartDelays == {0, 1}
NoReq == 0

NoSnap == [is_running |-> FALSE, execution_id |-> -1, current_step |-> 0,
           total_steps |-> 0, results |-> <<>>, completed |-> FALSE,
           aborted |-> FALSE]
NoClick == [pc |-> "off"]


----------------------------------------------------------------------------
\* ExecutionState

\* start(): "if self.is_running: return None"
start_refused(running) == running

\* mutant: add_result() appends and leaves current_step as it was
add_result_step_stale(rs) == current_step

\* add_result(): "self.current_step = len(self.results)"
add_result_step(rs) == Len(rs)

\* mutant: add_result() replaces the log by the new outcome
add_result_log_replace(rs, r) == <<r>>

\* add_result(): "self.results.append(result)"
add_result_log(rs, r) == Append(rs, r)

\* mutant: start() leaves abort_flag as it was
start_abort_flag_kept(flag) == flag

\* start(): "self.abort_flag = False"
start_abort_flag(flag) == FALSE

\* mutant: finish() sets completed and forgets to clear is_running
finish_keeps_running == TRUE

\* finish(): "self.is_running = False"
finish_is_running == FALSE

\* abort(): "self.abort_flag = True"
abort_value(flag) == TRUE

\* get_status(): the snapshot built under the lock
get_status ==
    [is_running |-> is_running, execution_id |-> execution_id,
     current_step |-> current_step, total_steps |-> total_steps,
     results |-> results, completed |-> completed, aborted |-> abort_flag]

\* A thread that touches an ExecutionState field at `site` without holding
\* the lock: the most recent such access of the run is recorded.
Touch(thread, site) == IF lock = thread THEN unlocked ELSE site

Init ==
    /\ is_running = FALSE /\ abort_flag = FALSE /\ execution_id = 0
    /\ current_step = 0 /\ total_steps = 0 /\ results = <<>>
    /\ completed = FALSE /\ lock = "free"
    /\ execution_abort_flag = FALSE
    /\ hpc = "idle" /\ hreq = NoReq /\ snap = NoSnap
    /\ requests = 0
    /\ threads = 0 /\ wpc = "none" /\ req = NoReq /\ i = 0 /\ action_type = "none"
    /\ action_dict = "none" /\ late = 0
    /\ result = "none" /\ after = "none" /\ src = -1 /\ polls = 0 /\ li = 0
    /\ origin = <<>> /\ invoked = {} /\ raised = {} /\ slept = {}
    /\ observed = FALSE /\ unlocked = "none"
    /\ ck = NoClick

----------------------------------------------------------------------------
\* The event loop: POST /api/execute, POST /api/abort, GET /api/execute/status

\* execute_actions, lines 487-491: reset the legacy flag; an empty list is
\* answered 400 and the handler is over.
\* Of the request body only "is the action list empty" is read here; the list
\* itself is first read by start(), where the model draws it.
ExecuteBegin(empty) ==
    /\ hpc = "idle" /\ requests < MaxRequests
    /\ requests' = requests + 1
    /\ execution_abort_flag' = FALSE
    /\ hpc' = IF empty THEN "idle" ELSE "exec_claim"
    /\ UNCHANGED <<esvars, lock, hreq, snap, workervars, histvars, ck>>

\* execute_actions, lines 494-496, with ExecutionState.start (36-47): a
\* refused claim is answered 409 and the handler is over.
ExecuteClaimOf(counts) ==
    /\ hpc = "exec_claim" /\ lock = "free"
    /\ IF start_refused(is_running)
       THEN /\ hpc' = "idle"
            /\ UNCHANGED <<esvars, hreq, histvars>>
       ELSE \E n \in counts :
            /\ is_running' = TRUE
            /\ abort_flag' = start_abort_flag(abort_flag)
            /\ execution_id' = execution_id + 1
            /\ current_step' = 0
            /\ total_steps' = n
            /\ results' = <<>>
            /\ completed' = FALSE
            /\ hpc' = "exec_spawn" /\ hreq' = n
            /\ origin' = <<>> /\ invoked' = {} /\ raised' = {} /\ slept' = {}
            /\ observed' = FALSE /\ unlocked' = "none" /\ late' = 0
    /\ UNCHANGED <<lock, execution_abort_flag, snap, requests, workervars, ck>>

ExecuteClaim == ExecuteClaimOf(ActionCounts)

\* execute_actions, lines 499-514: build request_dict, start the thread
ExecuteSpawn ==
    /\ hpc = "exec_spawn"
    /\ threads' = threads + 1
    /\ wpc' = "load" /\ req' = hreq /\ i' = 0
    /\ action_type' = "none" /\ action_dict' = "none"
    /\ result' = "none" /\ after' = "none" /\ src' = -1 /\ polls' = 0 /\ li' = 0
    /\ hpc' = "idle" /\ hreq' = NoReq
    /\ UNCHANGED <<esvars, lock, execution_abort_flag, snap, requests, histvars, ck>>

\* abort_execution, line 322
AbortBegin ==
    /\ hpc = "idle"
    /\ execution_abort_flag' = TRUE
    /\ hpc' = "abort_state"
    /\ UNCHANGED <<esvars, lock, hreq, snap, requests, workervars, histvars, ck>>

\* abort_execution, line 323, with ExecutionState.abort (59-61)
AbortState ==
    /\ hpc = "abort_state" /\ lock = "free"
    /\ abort_flag' = abort_value(abort_flag)
    /\ hpc' = "idle"
    /\ UNCHANGED <<is_running, execution_id, current_step, total_steps, results,
                   completed, lock, execution_abort_flag, hreq, snap,
                   requests, workervars, histvars, ck>>

\* get_execution_status with ExecutionState.get_status (63-73)
StatusBegin ==
    /\ hpc = "idle" /\ lock = "free"
    /\ snap' = get_status
    /\ hpc' = "status_reply"
    /\ UNCHANGED <<esvars, lock, execution_abort_flag, hreq, requests,
                   workervars, histvars, ck>>

\* the snapshot is delivered to the polling client (claude_query.py 51-52)
StatusReply ==
    /\ hpc = "status_reply"
    /\ snap' = NoSnap
    /\ hpc' = "idle"
    /\ UNCHANGED <<esvars, lock, execution_abort_flag, hreq, requests,
                   workervars, histvars, ck>>

----------------------------------------------------------------------------
\* The worker thread: run_actions_in_background (394-481)

NumActions == req

\* mutant: the delay is slept after every action but the last
DelayAfterAny(idx, n, status) == idx < n - 1

\* line 466: the inter-action delay follows a success that is not the last action
DelayAfter(idx, n, status) == idx < n - 1 /\ status = "success"

\* mutant: a failed action ends the for loop
next_index_break(idx, n, status) ==
    IF status \in {"error", "not_found", "timeout", "raised"} THEN n ELSE idx + 1

\* mutant: the for loop leaves out the action after the one just run
next_index_skip(idx, n, status) == idx + 2

\* the for loop goes on with the next action after a result or a caught exception
next_index(idx, n, status) == idx + 1

\* What decides the result of the handler of an action: the fields of its
\* ActionItem (92-102) that the handler tests, and what the handler finds on
\* the screen, on disk and in the clipboard.  Drawn when line 423 reads the
\* action.
Dicts(ty) ==
    CASE ty = "click"          -> {"no_image", "no_file", "on_screen", "off_screen"}
      [] ty = "click_or"       -> {"no_image", "on_screen", "off_screen"}
      [] ty = "paste"          -> {"unknown_id", "known_id"}
      [] ty = "wait"           -> {"no_image", "no_file", "given"}
      [] ty = "wait_disappear" -> {"no_image", "no_file", "absent", "present"}
      [] ty = "wait_seconds"   -> {"missing", "negative", "seconds", "too_large"}
      [] ty = "save_to_file"   -> {"clipboard_bad", "clipboard_ok"}
      [] ty = "loop_click"     -> {"no_image", "no_file", "given"}
      [] OTHER                   -> {"given"}

\* execute_click 549-585: the status it returns
execute_click(d) ==
    CASE d \in {"no_image", "no_file"} -> "error"
      [] d = "on_screen"               -> "success"
      [] OTHER                         -> "not_found"

\* execute_click_or 590-637: the status it returns
execute_click_or(d) ==
    CASE d = "no_image"  -> "error"
      [] d = "on_screen" -> "success"
      [] OTHER           -> "not_found"

\* mutant: pasting always fails
execute_paste_fails(d) == "error"

\* execute_paste 642-648
execute_paste(d) == IF d = "unknown_id" THEN "error" ELSE "success"

\* mutant: a negative duration is slept like any other
execute_wait_seconds_any(d) == IF d = "missing" THEN "error" ELSE "success"

\* execute_wait_seconds 757-761
execute_wait_seconds(d) ==
    IF d \in {"missing", "negative"} THEN "error" ELSE "success"

\* line 760: time.sleep raises OverflowError for a duration beyond the
\* platform's time_t (and ValueError for NaN)
sleep_rejects(ty, d) == ty = "wait_seconds" /\ d = "too_large"

\* execute_pagedown 764-779
execute_pagedown(d) == "success"

\* execute_save_to_file 844-911
execute_save_to_file(d) == IF d = "clipboard_bad" THEN "error" ELSE "success"

\* lines 442-461: the dispatch on action_type
Dispatch(ty, d) ==
    CASE ty = "click"        -> execute_click(d)
      [] ty = "click_or"     -> execute_click_or(d)
      [] ty = "paste"        -> execute_paste(d)
      [] ty = "wait_seconds" -> execute_wait_seconds(d)
      [] ty = "pagedown"     -> execute_pagedown(d)
      [] ty = "save_to_file" -> execute_save_to_file(d)
      [] OTHER                 -> "error"

\* mutant: an absent template sends execute_wait_disappear into its polling loop
wait_enter_polls(ty, d) ==
    CASE d \in {"no_image", "no_file"} -> "error"
      [] OTHER                         -> "loop"

\* execute_wait 661-670, execute_wait_disappear 707-726: what happens before
\* the polling loop
wait_enter(ty, d) ==
    CASE d \in {"no_image", "no_file"}            -> "error"
      [] ty = "wait_disappear" /\ d = "absent"    -> "success"
      [] OTHER                                    -> "loop"

\* mutant: the polling loops never look at the flags
abort_seen_never(flag) == FALSE

\* lines 674 / 730: "if execution_abort_flag or execution_state.abort_flag"
abort_seen(flag) == flag

\* probes a handler issues after a cancel request are counted in `late`
Late(n) == IF abort_flag \/ execution_abort_flag THEN late + n ELSE late

\* handlers with a pyautogui / pyperclip / file system call outside any try
CanRaise(ty) == ty \in {"paste", "pagedown", "save_to_file", "wait", "wait_disappear"}

\* mutant: progress is reported after every tenth turn only
ReportsProgressTenth(k, n) == (k + 1) % ProgressEvery = 0

\* line 952: progress is reported after the first, every tenth and the last turn
ReportsProgress(k, n) == k = 0 \/ (k + 1) % ProgressEvery = 0 \/ k = n - 1

\* the worker is about to call execution_state.add_result(status)
Record(status, idx, cont) ==
    /\ result' = status /\ src' = idx /\ after' = cont
    /\ wpc' = "add_result"

\* a handler raises: the except block (469-479) records one error
Raise ==
    /\ raised' = raised \cup {i}
    /\ Record("error", i, "next")

\* line 398: load_texts() is called outside any try; lines 408-409
W_Load ==
    /\ wpc = "load"
    /\ \/ /\ \E start_delay \in StartDelays :
             IF start_delay > 0
                THEN Record("info", -1, "delay")
                ELSE /\ wpc' = "check" /\ UNCHANGED <<result, src, after>>
          /\ UNCHANGED threads
       \/ /\ wpc' = "crashed" /\ threads' = threads - 1
          /\ UNCHANGED <<result, src, after>>
    /\ UNCHANGED <<esvars, lock, execution_abort_flag, loopvars, req, i, action_type, action_dict,
                   polls, li, histvars, ck>>

\* line 412, first operand: execution_state.abort_flag
W_DelayCheck ==
    /\ wpc = "delay_check"
    /\ unlocked' = Touch("worker", "run_actions_in_background:412")
    /\ IF abort_flag
       THEN /\ observed' = TRUE /\ Record("aborted", -1, "finish")
       ELSE /\ wpc' = "delay_check2" /\ UNCHANGED <<observed, result, src, after>>
    /\ UNCHANGED <<esvars, lock, execution_abort_flag, loopvars, threads, req, i,
                   action_type, action_dict, polls, li, origin, late, invoked, raised, slept, ck>>

\* line 412, second operand: execution_abort_flag; lines 413-415
W_DelayCheck2 ==
    /\ wpc = "delay_check2"
    /\ IF execution_abort_flag
       THEN /\ observed' = TRUE /\ Record("aborted", -1, "finish")
       ELSE /\ wpc' = "check" /\ UNCHANGED <<observed, result, src, after>>
    /\ UNCHANGED <<esvars, lock, execution_abort_flag, loopvars, threads, req, i,
                   action_type, action_dict, polls, li, origin, late, invoked, raised, slept, unlocked, ck>>

\* line 417 and line 419, first operand: execution_state.abort_flag
W_Check ==
    /\ wpc = "check"
    /\ IF i >= NumActions
       THEN /\ wpc' = "finish"
            /\ UNCHANGED <<observed, unlocked, result, src, after>>
       ELSE /\ unlocked' = Touch("worker", "run_actions_in_background:419")
            /\ IF abort_flag
               THEN /\ observed' = TRUE /\ Record("aborted", -1, "finish")
               ELSE /\ wpc' = "check2" /\ UNCHANGED <<observed, result, src, after>>
    /\ UNCHANGED <<esvars, lock, execution_abort_flag, loopvars, threads, req, i,
                   action_type, action_dict, polls, li, origin, late, invoked, raised, slept, ck>>

\* line 419, second operand: execution_abort_flag; lines 420-421; line 423
\* reads the type of the action
W_Check2 ==
    /\ wpc = "check2"
    /\ IF execution_abort_flag
       THEN /\ observed' = TRUE /\ Record("aborted", -1, "finish")
            /\ UNCHANGED <<action_type, action_dict>>
       ELSE /\ \E ty \in Kinds : \E d \in Dicts(ty) :
                  action_type' = ty /\ action_dict' = d
            /\ wpc' = "handler" /\ UNCHANGED <<observed, result, src, after>>
    /\ UNCHANGED <<esvars, lock, execution_abort_flag, loopvars, threads, req, i,
                   polls, li, origin, late, invoked, raised, slept, unlocked, ck>>

\* lines 442-461 for the handlers that never look at the cancellation flags
W_Simple ==
    /\ wpc = "handler"
    /\ action_type \notin {"wait", "wait_disappear", "loop_click"}
    /\ invoked' = invoked \cup {i}
    /\ \/ /\ ~sleep_rejects(action_type, action_dict)
          /\ Record(Dispatch(action_type, action_dict), i, "post")
          /\ UNCHANGED raised
       \/ /\ CanRaise(action_type) \/ sleep_rejects(action_type, action_dict)
          /\ Raise
    /\ UNCHANGED <<esvars, lock, execution_abort_flag, loopvars, threads, req, i,
                   action_type, action_dict, polls, li, origin, late, slept, observed, unlocked, ck>>

\* execute_wait 661-670, execute_wait_disappear 707-726; the initial probe of
\* execute_wait_disappear (717-721) cannot raise
W_WaitEnter ==
    /\ wpc = "handler"
    /\ action_type \in {"wait", "wait_disappear"}
    /\ invoked' = invoked \cup {i}
    /\ late' = IF action_type = "wait_disappear"
                  /\ action_dict \in {"absent", "present"}
               THEN Late(1) ELSE late
    /\ CASE wait_enter(action_type, action_dict) = "error" ->
              Record("error", i, "post") /\ UNCHANGED polls
         [] wait_enter(action_type, action_dict) = "success" ->
              Record("success", i, "post") /\ UNCHANGED polls
         [] OTHER ->
              /\ wpc' = "wait_time" /\ polls' = 0
              /\ UNCHANGED <<result, src, after>>
    /\ UNCHANGED <<esvars, lock, execution_abort_flag, loopvars, threads, req, i,
                   action_type, action_dict, li, origin, raised, slept, observed,
                   unlocked, ck>>

\* the loop condition time.time() - start_time < timeout (672, 728) and the
\* timeout results (698-702, 752); execute_wait first runs
\* find_best_match_confidence, which probes once at the target and then at
\* the lower test_confidences until one matches
W_WaitTimeOf(bound) ==
    /\ wpc = "wait_time"
    /\ \/ /\ Record("timeout", i, "post")
          /\ IF action_type = "wait"
             THEN \E n \in 1..(1 + Len(test_confidences)) : late' = Late(n)
             ELSE UNCHANGED late
       \/ /\ polls < bound
          /\ wpc' = "wait_check" /\ UNCHANGED <<result, src, after, late>>
    /\ UNCHANGED <<esvars, lock, execution_abort_flag, loopvars, threads, req, i,
                   action_type, action_dict, polls, li, origin, invoked, raised,
                   slept, observed, unlocked, ck>>

W_WaitTime == W_WaitTimeOf(MaxPolls)

\* lines 674 / 730, first operand: execution_abort_flag
W_WaitCheck ==
    /\ wpc = "wait_check"
    /\ IF abort_seen(execution_abort_flag)
       THEN /\ observed' = TRUE /\ Record("aborted", i, "post")
       ELSE /\ wpc' = "wait_check2" /\ UNCHANGED <<observed, result, src, after>>
    /\ UNCHANGED <<esvars, lock, execution_abort_flag, loopvars, threads, req, i,
                   action_type, action_dict, polls, li, origin, late, invoked, raised, slept, unlocked, ck>>

\* lines 674 / 730, second operand: execution_state.abort_flag
W_WaitCheck2 ==
    /\ wpc = "wait_check2"
    /\ unlocked' = Touch("worker", "execute_wait:674")
    /\ IF abort_seen(abort_flag)
       THEN /\ observed' = TRUE /\ Record("aborted", i, "post")
       ELSE /\ wpc' = "wait_probe" /\ UNCHANGED <<observed, result, src, after>>
    /\ UNCHANGED <<esvars, lock, execution_abort_flag, loopvars, threads, req, i,
                   action_type, action_dict, polls, li, origin, late, invoked, raised, slept, ck>>

\* lines 677-696 / 733-750: one probe, then the result or the pointer nudge
W_WaitProbe ==
    /\ wpc = "wait_probe"
    /\ late' = Late(1)
    /\ \/ /\ Record("success", i, "post") /\ UNCHANGED <<polls, raised>>
       \/ /\ wpc' = "wait_time" /\ polls' = polls + 1
          /\ UNCHANGED <<result, src, after, raised>>
       \/ /\ Raise /\ UNCHANGED polls
    /\ UNCHANGED <<esvars, lock, execution_abort_flag, loopvars, threads, req, i,
                   action_type, action_dict, li, origin, invoked, slept, observed, unlocked,
                   ck>>

\* execute_loop_click 918-926
W_LoopEnter ==
    /\ wpc = "handler"
    /\ action_type = "loop_click"
    /\ invoked' = invoked \cup {i}
    /\ IF action_dict \in {"no_image", "no_file"}
       THEN /\ Record("error", i, "post") /\ UNCHANGED li
       ELSE /\ wpc' = "loop_check" /\ li' = 0
            /\ UNCHANGED <<result, src, after>>
    /\ UNCHANGED <<esvars, lock, execution_abort_flag, loopvars, threads, req, i,
                   action_type, action_dict, polls, origin, late, raised, slept, observed, unlocked, ck>>

\* line 928 and line 930, first operand: execution_state.abort_flag; line 962
W_LoopCheck ==
    /\ wpc = "loop_check"
    /\ IF li >= LoopCountDefault
       THEN /\ Record("success", i, "post")
            /\ UNCHANGED <<observed, unlocked>>
       ELSE /\ unlocked' = Touch("worker", "execute_loop_click:930")
            /\ IF abort_flag
               THEN /\ observed' = TRUE /\ Record("aborted", i, "post")
               ELSE /\ wpc' = "loop_check2"
                    /\ UNCHANGED <<observed, result, src, after>>
    /\ UNCHANGED <<esvars, lock, execution_abort_flag, loopvars, threads, req, i,
                   action_type, action_dict, polls, li, origin, late, invoked, raised, slept, ck>>

\* line 930, second operand: execution_abort_flag; line 931; then lines
\* 933-960: one search-and-click turn (it touches no shared state), the
\* progress report, the interval
W_LoopCheck2 ==
    /\ wpc = "loop_check2"
    /\ IF execution_abort_flag
       THEN /\ observed' = TRUE /\ Record("aborted", i, "post") /\ UNCHANGED li
       ELSE /\ IF ReportsProgress(li, LoopCountDefault)
               THEN /\ Record("info", i, "loop_sleep") /\ UNCHANGED li
               ELSE /\ li' = li + 1 /\ wpc' = "loop_check"
                    /\ UNCHANGED <<result, src, after>>
            /\ UNCHANGED observed
    /\ UNCHANGED <<esvars, lock, execution_abort_flag, loopvars, threads, req, i,
                   action_type, action_dict, polls, origin, late, invoked, raised, slept, unlocked, ck>>

\* ExecutionState.add_result, lines 50-51: take the lock, append
W_AddResult ==
    /\ wpc = "add_result" /\ lock = "free"
    /\ lock' = "worker"
    /\ results' = add_result_log(results, result)
    /\ origin' = Append(origin, src)
    /\ wpc' = "add_result_set"
    /\ UNCHANGED <<is_running, abort_flag, execution_id, current_step, total_steps,
                   completed, execution_abort_flag, loopvars, threads, req, i,
                   action_type, action_dict, result, after, src, polls, li,
                   invoked, raised, slept, observed, unlocked, late, ck>>

\* ExecutionState.add_result, line 52: set current_step, release the lock;
\* then the caller goes on (410, 414, 421, 466-467, 479, 959-960)
W_AddResultSet ==
    /\ wpc = "add_result_set"
    /\ current_step' = add_result_step(results)
    /\ lock' = "free"
    /\ result' = "none" /\ src' = -1 /\ after' = "none"
    /\ action_type' = IF after = "loop_sleep" THEN action_type ELSE "none"
    /\ action_dict' = IF after = "loop_sleep" THEN action_dict ELSE "none"
    /\ late' = 0
    /\ CASE after = "delay" ->
              /\ wpc' = "delay_check" /\ UNCHANGED <<i, li, slept>>
         [] after = "finish" ->
              /\ wpc' = "finish" /\ UNCHANGED <<i, li, slept>>
         [] after = "post" ->
              /\ slept' = IF DelayAfter(i, NumActions, result)
                          THEN slept \cup {i} ELSE slept
              /\ i' = next_index(i, NumActions, result)
              /\ wpc' = "check" /\ UNCHANGED li
         [] after = "next" ->
              /\ i' = next_index(i, NumActions, "raised")
              /\ wpc' = "check" /\ UNCHANGED <<li, slept>>
         [] after = "loop_sleep" ->
              /\ li' = li + 1
              /\ wpc' = "loop_check" /\ UNCHANGED <<i, slept>>
    /\ UNCHANGED <<is_running, abort_flag, execution_id, total_steps, results,
                   completed, execution_abort_flag, loopvars, threads, req,
                   polls, origin, invoked, raised, observed, unlocked, ck>>

\* ExecutionState.finish, lines 55-56: take the lock, set completed
W_Finish ==
    /\ wpc = "finish" /\ lock = "free"
    /\ lock' = "worker"
    /\ completed' = TRUE
    /\ wpc' = "finish_clear"
    /\ UNCHANGED <<is_running, abort_flag, execution_id, current_step, total_steps,
                   results, execution_abort_flag, loopvars, threads, req, i,
                   action_type, action_dict, result, after, src, polls, li, histvars, ck>>

\* ExecutionState.finish, line 57: clear is_running, release; the thread ends
W_FinishClear ==
    /\ wpc = "finish_clear"
    /\ is_running' = finish_is_running
    /\ lock' = "free"
    /\ wpc' = "done" /\ threads' = threads - 1
    /\ UNCHANGED <<abort_flag, execution_id, current_step, total_steps, results,
                   completed, execution_abort_flag, loopvars, req, i, action_type, action_dict, result,
                   after, src, polls, li, histvars, ck>>

Worker ==
    \/ W_Load \/ W_DelayCheck \/ W_DelayCheck2 \/ W_Check \/ W_Check2
    \/ W_Simple \/ W_WaitEnter \/ W_WaitTime \/ W_WaitCheck \/ W_WaitCheck2
    \/ W_WaitProbe \/ W_LoopEnter \/ W_LoopCheck \/ W_LoopCheck2
    \/ W_AddResult \/ W_AddResultSet \/ W_Finish \/ W_FinishClear

EventLoop ==
    \/ \E empty \in BOOLEAN : ExecuteBegin(empty)
    \/ ExecuteClaim
    \/ ExecuteSpawn
    \/ AbortBegin \/ AbortState
    \/ StatusBegin \/ StatusReply

Next == EventLoop \/ Worker

Spec == Init /\ [][Next]_vars

----------------------------------------------------------------------------
\* Properties of the run tracker and the executor

\* what a cancellation checkpoint of the worker sees
Cancelled == abort_flag \/ execution_abort_flag

HandlerPcs == {"handler", "wait_time", "wait_check", "wait_check2", "wait_probe",
               "loop_check", "loop_check2"}
EndedPcs == {"done", "crashed"}

Count(seq, status) == Cardinality({k \in 1..Len(seq) : seq[k] = status})

\* positions of the outcome log that belong to action idx
OutcomesOf(idx) == {k \in 1..Len(origin) : k <= Len(results) /\ origin[k] = idx}

Max(S) == CHOOSE x \in S : \A y \in S : y <= x

\* the status the handler of action idx returned, or the error of its exception
FinalStatus(idx) ==
    IF OutcomesOf(idx) = {} THEN "none" ELSE results[Max(OutcomesOf(idx))]

\* the worker locals (req, i) are those of the run ExecutionState describes:
\* between a successful claim and thread.start() they are still the previous
\* thread's
WorkerOfRun == hpc # "exec_spawn"

\* C1 (as claimed): a start request handled while a run is active ends in the
\* conflict answer (the handler is over without reaching thread.start()),
\* starts no worker thread, and changes neither a field of
\* ExecutionState nor the cancellation flags the worker's checkpoints read; at
\* most one worker thread is alive at any time.
C1_RejectedStart ==
    /\ [][(hpc = "exec_claim" /\ is_running /\ hpc' # "exec_claim") =>
            /\ hpc' = "idle"
            /\ UNCHANGED <<esvars, workervars, execution_abort_flag>>]_vars
    /\ [][(hpc = "idle" /\ is_running /\ hpc' = "exec_claim") =>
            UNCHANGED <<esvars, workervars, execution_abort_flag>>]_vars
    /\ [](threads <= 1)

\* C2: whenever the lock is free, and in every snapshot get_status returns,
\* current_step equals the number of outcomes in the log.
C2_StepIsLogLength ==
    /\ lock = "free" => current_step = Len(results)
    /\ snap # NoSnap => snap.current_step = Len(snap.results)

\* a poll taken while the worker is running has seen two outcomes
C2_Witness ==
    /\ snap # NoSnap /\ snap.is_running /\ Len(snap.results) >= 2
    /\ wpc \in HandlerPcs

\* C3 (as claimed): once a checkpoint has observed the cancellation no handler
\* runs any more, and the log of the completed run holds exactly one aborted
\* outcome.
C3_SingleAborted ==
    /\ observed => wpc \notin HandlerPcs
    /\ (completed /\ observed) => Count(results, "aborted") = 1

\* C4 (as claimed): every worker thread that has ended, on whatever path, left
\* the run completed and the slot free.
C4_EndedRunIsCompleted ==
    wpc \in EndedPcs => (completed /\ ~is_running)

\* C5 (as claimed): while the run stays completed the abort flag does not
\* change.
C5_AbortFrozen ==
    [][(completed /\ completed') => abort_flag' = abort_flag]_vars

\* C6: whenever the lock is free, and in every snapshot, is_running and
\* completed are not both true, and from the first claim on exactly one of
\* them is true.
C6_RunningXorCompleted ==
    /\ lock = "free" =>
          /\ ~(is_running /\ completed)
          /\ execution_id > 0 => (is_running # completed)
    /\ snap # NoSnap =>
          /\ ~(snap.is_running /\ snap.completed)
          /\ snap.execution_id > 0 => (snap.is_running # snap.completed)

\* a poll has seen the completed state of the second run
C6_Witness ==
    /\ snap # NoSnap /\ snap.completed /\ ~snap.is_running
    /\ snap.execution_id = 2

\* C7: the executor reaches action k only after the handlers of all earlier
\* actions were invoked, unless a cancellation was observed; a run that ends
\* without an observed cancellation has invoked every handler; an action whose
\* handler raised has exactly one outcome, an error.
C7_FailureDoesNotHalt ==
    WorkerOfRun =>
    /\ i <= NumActions
    /\ ~observed => \A k \in 0..(i - 1) : k \in invoked
    /\ (wpc \in {"finish", "finish_clear", "done"} /\ ~observed) =>
          invoked = 0..(NumActions - 1)
    /\ \A k \in raised : k < i =>
          /\ Cardinality(OutcomesOf(k)) = 1
          /\ FinalStatus(k) = "error"

\* a completed run whose first action failed or raised went on to the second
C7_Witness ==
    /\ completed /\ ~observed /\ NumActions = 2
    /\ 0 \in raised /\ invoked = {0, 1}
    /\ FinalStatus(1) \in {"not_found", "timeout"}

\* C8: the interval was slept after action k exactly when its outcome is
\* success and k is not the last action.
C8_DelayOnlyAfterSuccess ==
    WorkerOfRun =>
    /\ slept \subseteq 0..(i - 1)
    /\ \A k \in 0..(NumActions - 1) : k < i =>
          (k \in slept <=> (FinalStatus(k) = "success" /\ k < NumActions - 1))

\* a completed run slept after its first action and not after the last,
\* successful one
C8_Witness ==
    /\ completed /\ NumActions = 2 /\ slept = {0}
    /\ FinalStatus(1) = "success"

\* C9 (as claimed): no thread touches a field of ExecutionState without
\* holding its lock.
C9_AllAccessLocked == unlocked = "none"

----------------------------------------------------------------------------
\* Cancellation and the handlers

WaitKinds == {"wait", "wait_disappear"}

\* The executor with only execute_wait and execute_wait_disappear dispatched,
\* their polling loops running up to MaxWaitPolls iterations.
Wait_Check2 == W_Check2 /\ (wpc' = "handler" => action_type' \in WaitKinds)
Wait_Time == W_WaitTimeOf(MaxWaitPolls)

NextWait ==
    \/ EventLoop
    \/ W_Load \/ W_DelayCheck \/ W_DelayCheck2 \/ W_Check \/ Wait_Check2
    \/ W_WaitEnter \/ Wait_Time \/ W_WaitCheck \/ W_WaitCheck2 \/ W_WaitProbe
    \/ W_AddResult \/ W_AddResultSet \/ W_Finish \/ W_FinishClear

SpecWait == Init /\ [][NextWait]_vars

\* the abort result of a polling loop: no probe, no pointer move in between
AbortsAtOnce ==
    /\ wpc' = "add_result" /\ result' = "aborted" /\ late' = late

\* C14 (as claimed): a polling loop that finds a flag set at the top of an
\* iteration returns aborted without a probe, and a wait handler issues at
\* most one probe after a cancel request.
C14_OneProbeAfterCancel ==
    /\ [][(wpc = "wait_check" /\ execution_abort_flag /\ wpc' # wpc)
            => AbortsAtOnce]_vars
    /\ [][(wpc = "wait_check2" /\ abort_flag /\ wpc' # wpc)
            => AbortsAtOnce]_vars
    /\ [](action_type \in WaitKinds => late <= 1)

\* C14 (amended): a polling loop that finds a flag set at the top of an
\* iteration returns aborted without a probe; the initial probe and the
\* polling loop together issue at most one probe after a cancel request; only
\* the timeout of execute_wait adds the probes of its diagnostic pass, one at
\* the target and at most one per entry of test_confidences.
C14_RecheckedBeforeEveryPoll ==
    /\ [][(wpc = "wait_check" /\ execution_abort_flag /\ wpc' # wpc)
            => AbortsAtOnce]_vars
    /\ [][(wpc = "wait_check2" /\ abort_flag /\ wpc' # wpc)
            => AbortsAtOnce]_vars
    /\ []((action_type \in WaitKinds
             /\ ~(action_type = "wait" /\ result = "timeout")) => late <= 1)
    /\ []((action_type = "wait" /\ result = "timeout")
            => late <= 1 + 1 + Len(test_confidences))

\* execute_wait probed once after the cancel request and aborted at the top
\* of the next iteration
C14_Witness ==
    /\ wpc = "add_result" /\ action_type = "wait" /\ result = "aborted"
    /\ late = 1

\* C15 (as claimed): a worker that starts with the cancellation already
\* requested does not announce and sleep the start delay.
C15_AbortBeforeStartDelay ==
    [][(wpc = "load" /\ abort_flag /\ execution_abort_flag)
        => ~(wpc' = "add_result" /\ result' = "info")]_vars

\* C17 (as claimed): execute_wait_seconds returns error for a missing or
\* negative duration and success for every other one, whatever the flags
\* say, and reads no flag.
C17_SleepByDurationAlone ==
    [][(wpc = "handler" /\ action_type = "wait_seconds" /\ wpc' # wpc) =>
         /\ wpc' = "add_result"
         /\ result' = IF action_dict \in {"missing", "negative"}
                       THEN "error" ELSE "success"
         /\ UNCHANGED <<observed, unlocked>>]_vars

\* C17 (amended): execute_wait_seconds returns error for a missing or negative
\* duration and success for every other duration time.sleep accepts, whatever
\* the flags say, and reads no flag; a duration time.sleep rejects raises and
\* is recorded as the one error of the action; a cancellation pending at the
\* next before-action checkpoint is observed there.
C17_SleepIgnoresCancel ==
    /\ [][(wpc = "handler" /\ action_type = "wait_seconds" /\ wpc' # wpc) =>
            /\ wpc' = "add_result"
            /\ result' = IF action_dict \in {"missing", "negative", "too_large"}
                          THEN "error" ELSE "success"
            /\ (i \in raised') <=> (action_dict = "too_large")
            /\ UNCHANGED <<observed, unlocked>>]_vars
    /\ [][(wpc = "check" /\ i < NumActions /\ abort_flag /\ wpc' # wpc) =>
            (observed' /\ result' = "aborted")]_vars

\* a cancel request arrived while execute_wait_seconds slept, and it returned
\* success
C17_Witness ==
    /\ wpc = "add_result" /\ action_type = "wait_seconds"
    /\ action_dict = "seconds" /\ result = "success"
    /\ abort_flag /\ ~observed

\* C19: execute_wait_disappear on a template its initial probe does not find
\* returns success at once: it does not enter the polling loop and reads no
\* flag, cancelled or not.
C19_AbsentAtFirstProbe ==
    [][(wpc = "handler" /\ action_type = "wait_disappear"
          /\ action_dict = "absent" /\ wpc' # wpc) =>
         /\ wpc' = "add_result" /\ result' = "success" /\ after' = "post"
         /\ polls' = polls
         /\ UNCHANGED <<observed, unlocked, raised>>]_vars

\* execute_wait_disappear returned success for an absent template although
\* the cancellation was already requested
C19_Witness ==
    /\ wpc = "add_result" /\ action_type = "wait_disappear"
    /\ action_dict = "absent" /\ result = "success"
    /\ abort_flag /\ ~observed

----------------------------------------------------------------------------
\* Runs of one fixed action list, polled while they run: no start delay, no
\* cancel request, texts.json readable and no library call failing.  Further
\* start requests arrive at any time.

Scenario ==
    << [type |-> "click", dict |-> "off_screen"],
       [type |-> "paste", dict |-> "known_id"],
       [type |-> "wait_seconds", dict |-> "seconds"] >>

E2E_Begin == \E empty \in BOOLEAN : ExecuteBegin(empty)
E2E_Claim == ExecuteClaimOf({Len(Scenario)})
E2E_Load == W_Load /\ wpc' = "check"
E2E_Check2 ==
    /\ W_Check2
    /\ action_type' = Scenario[i + 1].type
    /\ action_dict' = Scenario[i + 1].dict
E2E_Simple == W_Simple /\ raised' = raised

NextE2E ==
    \/ E2E_Begin \/ E2E_Claim \/ ExecuteSpawn
    \/ StatusBegin \/ StatusReply
    \/ E2E_Load \/ W_Check \/ E2E_Check2 \/ E2E_Simple
    \/ W_AddResult \/ W_AddResultSet \/ W_Finish \/ W_FinishClear

SpecE2E == Init /\ [][NextE2E]_vars

\* C18: the run of [click(never on screen), paste(known id), wait_seconds(1)]
\* ends with the log [not_found, success, success], completed, not running,
\* not aborted, current_step 3, and the interval slept once, after the paste;
\* a poll of the completed run reports the same.
C18_EndToEnd ==
    /\ (wpc = "done" /\ WorkerOfRun) =>
          /\ results = <<"not_found", "success", "success">>
          /\ completed /\ ~is_running /\ ~abort_flag
          /\ current_step = 3
          /\ slept = {1}
    /\ (snap # NoSnap /\ snap.completed) =>
          /\ snap.results = <<"not_found", "success", "success">>
          /\ ~snap.is_running /\ ~snap.aborted /\ snap.current_step = 3

\* a poll has seen the completed run of the three actions
C18_Witness ==
    /\ wpc = "done" /\ snap # NoSnap /\ snap.completed
    /\ Len(snap.results) = Len(Scenario)

----------------------------------------------------------------------------
\* execute_click (547-585) on its own.  Confidences and the similarity of the
\* template on screen are in thousandths: 0.95 is 950, the step 0.02 is 20 and
\* the tolerance 0.001 is 1 (the rounding error of the repeated float
\* subtraction stays far below the tolerance).

LadderStep == 20        \* current_conf -= 0.02
Tolerance == 1          \* min_confidence - 0.001
max_retries == 2        \* max_retries: int = 2
NotFoundConf == -1      \* find_best_match_confidence returns (None, None)

ConfidenceInputs == {950, 900, 800, 720, 719, 710, 700}
MinConfidenceInputs == {700, 570, 500, 300}
Similarities == {10 * k : k \in 0..100}

\* pyautogui.locateCenterOnScreen(image, confidence=t) finds the template
Probe(s, t) == s >= t

\* find_best_match_confidence (517-544), first element of the returned pair
find_best_match_confidence(s, target_confidence) ==
    IF Probe(s, target_confidence) THEN target_confidence
    ELSE LET hits == {k \in 1..Len(test_confidences) :
                        /\ ~(test_confidences[k] >= target_confidence)
                        /\ Probe(s, test_confidences[k])}
         IN  IF hits = {} THEN NotFoundConf
             ELSE test_confidences[CHOOSE k \in hits : \A m \in hits : k <= m]

\* the "int(found_conf*100)" of lines 583 and 630 on the float nearest to v
\* thousandths: 0.29*100, 0.57*100 and 0.58*100 fall just below the integer,
\* every other product truncates to v \div 10
Percent(v) == IF v \in {290, 570, 580} THEN (v \div 10) - 1 ELSE v \div 10

\* lines 581-585, 629-632: what the not_found message says about a template
Detail(found_conf) ==
    IF found_conf = NotFoundConf THEN [kind |-> "below_30"]
    ELSE [kind |-> "percent", value |-> Percent(found_conf)]

\* mutant: the ladder goes one step below the floor
LadderContinuesBelow(current_conf, min_confidence) ==
    current_conf >= min_confidence - LadderStep

\* line 559: the while condition of one ladder pass
LadderContinues(current_conf, min_confidence) ==
    current_conf >= min_confidence - Tolerance

\* mutant: the backoff is slept after every pass
BacksOffAlways(retry) == TRUE

\* lines 576 and 619: "if retry < max_retries - 1: time.sleep(1.0)"
BacksOff(retry) == retry < max_retries - 1

\* line 565: the success message names the reduced precision
SteppedDown(current_conf, confidence) == current_conf < confidence - Tolerance

mainvars == <<esvars, lock, execution_abort_flag, loopvars, workervars, histvars>>

InitClick ==
    /\ is_running = FALSE /\ abort_flag = FALSE /\ execution_id = 0
    /\ current_step = 0 /\ total_steps = 0 /\ results = <<>>
    /\ completed = FALSE /\ lock = "free"
    /\ execution_abort_flag = FALSE
    /\ hpc = "idle" /\ hreq = NoReq /\ snap = NoSnap
    /\ requests = 0
    /\ threads = 0 /\ wpc = "none" /\ req = NoReq /\ i = 0 /\ action_type = "none"
    /\ action_dict = "none" /\ late = 0
    /\ result = "none" /\ after = "none" /\ src = -1 /\ polls = 0 /\ li = 0
    /\ origin = <<>> /\ invoked = {} /\ raised = {} /\ slept = {}
    /\ observed = FALSE /\ unlocked = "none"
    /\ \E c \in ConfidenceInputs, m \in MinConfidenceInputs, s \in Similarities,
          named \in BOOLEAN, exists \in BOOLEAN :
          ck = [handler |-> "click", detail |-> [kind |-> "none"],
                pc |-> "start", confidence |-> c, min_confidence |-> m,
                similarity |-> s, named |-> named, exists |-> exists,
                retry |-> 0, current_conf |-> c, ladder |-> {}, probes |-> 0,
                clicked_at |-> {}, sleeps |-> 0, stepped_down |-> FALSE,
                found_conf |-> NotFoundConf, status |-> "none"]

\* lines 549-554
CK_Start ==
    /\ ck.pc = "start"
    /\ IF ~ck.named \/ ~ck.exists
       THEN ck' = [ck EXCEPT !.pc = "done", !.status = "error"]
       ELSE ck' = [ck EXCEPT !.pc = "ladder", !.retry = 0,
                             !.current_conf = ck.confidence]
    /\ UNCHANGED mainvars

\* lines 559-573: one probe of the ladder, the click on a match
CK_Probe ==
    /\ ck.pc = "ladder"
    /\ LadderContinues(ck.current_conf, ck.min_confidence)
    /\ IF Probe(ck.similarity, ck.current_conf)
       THEN ck' = [ck EXCEPT !.pc = "done", !.status = "success",
                             !.probes = @ + 1,
                             !.ladder = @ \cup {ck.current_conf},
                             !.clicked_at = @ \cup {ck.current_conf},
                             !.stepped_down =
                                 SteppedDown(ck.current_conf, ck.confidence)]
       ELSE ck' = [ck EXCEPT !.probes = @ + 1,
                             !.ladder = @ \cup {ck.current_conf},
                             !.current_conf = @ - LadderStep]
    /\ UNCHANGED mainvars

\* lines 556, 575-577: the pass found nothing; back off, then the next pass
CK_PassEnd ==
    /\ ck.pc = "ladder"
    /\ ~LadderContinues(ck.current_conf, ck.min_confidence)
    /\ ck' = [ck EXCEPT
                !.sleeps = IF BacksOff(ck.retry) THEN @ + 1 ELSE @,
                !.retry = @ + 1,
                !.current_conf = ck.confidence,
                !.pc = IF ck.retry + 1 < max_retries THEN "ladder" ELSE "diagnose"]
    /\ UNCHANGED mainvars

\* lines 579-585
CK_Diagnose ==
    /\ ck.pc = "diagnose"
    /\ ck' = [ck EXCEPT
                !.pc = "done", !.status = "not_found",
                !.found_conf =
                    find_best_match_confidence(ck.similarity, ck.min_confidence),
                !.detail =
                    Detail(find_best_match_confidence(ck.similarity,
                                                      ck.min_confidence))]
    /\ UNCHANGED mainvars

NextClick == CK_Start \/ CK_Probe \/ CK_PassEnd \/ CK_Diagnose

SpecClick == InitClick /\ [][NextClick]_vars

\* C10 (as claimed): for a named, existing template and a target at or above
\* the floor, Click ends in success exactly when the similarity reaches the
\* floor, and a pass that finds nothing has probed the floor itself.
C10_ClickIffAtLeastMin ==
    (ck.pc = "done" /\ ck.named /\ ck.exists
        /\ ck.confidence >= ck.min_confidence) =>
       /\ ck.status = "success" <=> ck.similarity >= ck.min_confidence
       /\ ck.status = "not_found" => ck.min_confidence \in ck.ladder

----------------------------------------------------------------------------
\* execute_click, execute_click_or (588-637) and execute_loop_click (914-962)
\* running as the handler of the only action of a run, while POST /api/abort
\* is served on the event loop.  The screen does not change while
\* execute_click and execute_click_or run; execute_loop_click sees a new
\* screen in every turn.

MaxTemplates == 2        \* longest image_names list of execute_click_or

OrConfidences == {<<760, 700>>, <<719, 700>>, <<720, 570>>, <<600, 700>>}
OrSimilarities == {0, 570, 700, 730, 800}
LoopConfidences == {<<760, 700>>, <<719, 700>>}
LoopSimilarities == {0, 700, 800}

Templates == [exists : BOOLEAN, similarity : OrSimilarities]
ImageNames == UNION {[1..n -> Templates] : n \in 0..MaxTemplates}

\* the thresholds one ladder pass visits (lines 559-573, 596-616, 937-946)
LadderSet(confidence, min_confidence) ==
    {th \in {confidence - LadderStep * k : k \in 0..50} :
        LadderContinues(th, min_confidence)}

\* lines 937-946: the threshold at which one turn of execute_loop_click
\* clicks, NotFoundConf when the ladder ends with clicked = False
RECURSIVE LadderHit(_, _, _)
LadderHit(s, current_conf, min_confidence) ==
    IF ~LadderContinues(current_conf, min_confidence) THEN NotFoundConf
    ELSE IF Probe(s, current_conf) THEN current_conf
    ELSE LadderHit(s, current_conf - LadderStep, min_confidence)

\* mutant: the threshold is lowered after every failed probe
StepsDownAfterAny(j, n) == TRUE

\* lines 597-616: the threshold is lowered after the last name of the list
StepsDownAfter(j, n) == j = n

\* mutant: a turn without a click is not counted
count_turn_hits(clicked, tally) ==
    IF clicked THEN [tally EXCEPT !.success_count = @ + 1] ELSE tally

\* lines 941 and 948-949: every turn adds one to exactly one tally
count_turn(clicked, tally) ==
    IF clicked THEN [tally EXCEPT !.success_count = @ + 1]
    ELSE [tally EXCEPT !.fail_count = @ + 1]

\* The fields ActionItem declares (94-102).  Pydantic builds the ActionItem of
\* a posted JSON object from the declared fields and drops every other key;
\* model_dump() at line 500 returns the declared fields, None where the JSON
\* object gave none.
ActionItemFields == {"type", "image_name", "image_names", "text_id",
                     "text_index", "seconds", "count", "flow_name", "group_name"}
None == "None"
model_dump(json) ==
    [f \in ActionItemFields |-> IF f \in DOMAIN json THEN json[f] ELSE None]

\* dict.get(key, default)
dict_get(d, key, default) == IF key \in DOMAIN d THEN d[key] ELSE default

\* lines 431-432
loop_count_of(d) == dict_get(d, "loop_count", LoopCountDefault)
loop_interval_of(d) == dict_get(d, "loop_interval", LoopIntervalDefault)

\* loop_click actions a client posts: without and with the two loop keys
LoopActions ==
    {[type |-> "loop_click", image_name |-> "t.png"],
     [type |-> "loop_click", image_name |-> "t.png",
      loop_count |-> 3, loop_interval |-> 2]}

\* the worker thread is inside the handler of action 0 of a one-action run
InHandler(ty) ==
    /\ is_running = TRUE /\ abort_flag = FALSE /\ execution_id = 1
    /\ current_step = 0 /\ total_steps = 1 /\ results = <<>>
    /\ completed = FALSE /\ lock = "free"
    /\ execution_abort_flag = FALSE
    /\ hpc = "idle" /\ hreq = NoReq /\ snap = NoSnap
    /\ requests = 1
    /\ threads = 1 /\ wpc = "handler" /\ req = 1 /\ i = 0 /\ action_type = ty
    /\ action_dict = "given" /\ late = 0
    /\ result = "none" /\ after = "none" /\ src = -1 /\ polls = 0 /\ li = 0
    /\ origin = <<>> /\ invoked = {} /\ raised = {} /\ slept = {}
    /\ observed = FALSE /\ unlocked = "none"

InitHandlers ==
    \/ /\ InHandler("click")
       /\ \E c \in ConfidenceInputs, m \in MinConfidenceInputs,
             s \in Similarities, named \in BOOLEAN, exists \in BOOLEAN :
             ck = [handler |-> "click", detail |-> [kind |-> "none"],
                   pc |-> "start", confidence |-> c, min_confidence |-> m,
                   similarity |-> s, named |-> named, exists |-> exists,
                   retry |-> 0, current_conf |-> c, ladder |-> {}, probes |-> 0,
                   clicked_at |-> {}, sleeps |-> 0, stepped_down |-> FALSE,
                   found_conf |-> NotFoundConf, status |-> "none"]
    \/ /\ InHandler("click_or")
       /\ \E cm \in OrConfidences, names \in ImageNames :
             ck = [handler |-> "click_or", pc |-> "or_start",
                   confidence |-> cm[1], min_confidence |-> cm[2],
                   image_names |-> names, retry |-> 0, current_conf |-> cm[1],
                   j |-> 1, clicked_at |-> {}, clicked_template |-> 0,
                   clicks |-> 0, sleeps |-> 0, stepped_down |-> FALSE,
                   details |-> <<>>, status |-> "none"]
    \/ /\ InHandler("loop_click")
       /\ \E cm \in LoopConfidences, named \in BOOLEAN, exists \in BOOLEAN,
             json \in LoopActions :
             ck = [handler |-> "loop_click", pc |-> "loop_start",
                   confidence |-> cm[1], min_confidence |-> cm[2],
                   named |-> named, exists |-> exists, sent |-> json,
                   loop_count |-> loop_count_of(model_dump(json)),
                   loop_interval |-> loop_interval_of(model_dump(json)),
                   i |-> 0,
                   success_count |-> 0, fail_count |-> 0, turns |-> 0,
                   progress |-> <<>>, naps |-> <<>>,
                   clicked_at |-> {}, stepped_down |-> FALSE,
                   reported |-> <<>>, status |-> "none"]

\* lines 590-591
CO_Start ==
    /\ ck.pc = "or_start"
    /\ IF Len(ck.image_names) = 0
       THEN ck' = [ck EXCEPT !.pc = "done", !.status = "error"]
       ELSE ck' = [ck EXCEPT !.pc = "or_ladder", !.retry = 0, !.j = 1,
                             !.current_conf = ck.confidence]
    /\ UNCHANGED mainvars

\* lines 596-616: one name of the list at the current threshold; a name
\* without a file is skipped, a match is clicked
CO_Probe ==
    /\ ck.pc = "or_ladder"
    /\ LadderContinues(ck.current_conf, ck.min_confidence)
    /\ LET tpl == ck.image_names[ck.j]
           down == StepsDownAfter(ck.j, Len(ck.image_names))
       IN  IF tpl.exists /\ Probe(tpl.similarity, ck.current_conf)
           THEN ck' = [ck EXCEPT !.pc = "done", !.status = "success",
                                 !.clicked_at = @ \cup {ck.current_conf},
                                 !.clicked_template = ck.j,
                                 !.clicks = @ + 1,
                                 !.stepped_down =
                                     SteppedDown(ck.current_conf, ck.confidence)]
           ELSE ck' = [ck EXCEPT !.j = IF down THEN 1 ELSE @ + 1,
                                 !.current_conf =
                                     IF down THEN @ - LadderStep ELSE @]
    /\ UNCHANGED mainvars

\* lines 593, 618-620: the pass found nothing; back off, then the next pass
CO_PassEnd ==
    /\ ck.pc = "or_ladder"
    /\ ~LadderContinues(ck.current_conf, ck.min_confidence)
    /\ ck' = [ck EXCEPT
                !.sleeps = IF BacksOff(ck.retry) THEN @ + 1 ELSE @,
                !.retry = @ + 1,
                !.current_conf = ck.confidence,
                !.j = 1,
                !.pc = IF ck.retry + 1 < max_retries
                       THEN "or_ladder" ELSE "or_diagnose"]
    /\ UNCHANGED mainvars

\* lines 622-637: the diagnostic pass over every name of the list
CO_Diagnose ==
    /\ ck.pc = "or_diagnose"
    /\ ck' = [ck EXCEPT
                !.pc = "done", !.status = "not_found",
                !.details =
                    [k \in 1..Len(ck.image_names) |->
                        IF ~ck.image_names[k].exists THEN [kind |-> "no_file"]
                        ELSE Detail(find_best_match_confidence(
                                        ck.image_names[k].similarity,
                                        ck.min_confidence))]]
    /\ UNCHANGED mainvars

\* lines 918-926
LC_Start ==
    /\ ck.pc = "loop_start"
    /\ IF ~ck.named \/ ~ck.exists
       THEN ck' = [ck EXCEPT !.pc = "done", !.status = "error"]
       ELSE ck' = [ck EXCEPT !.pc = "loop_check", !.i = 0]
    /\ UNCHANGED mainvars

\* line 928, line 930 first operand (execution_state.abort_flag), lines 931
\* and 962
LC_Check ==
    /\ ck.pc = "loop_check"
    /\ ck' = IF ck.i >= ck.loop_count
             THEN [ck EXCEPT !.pc = "done", !.status = "success"]
             ELSE IF abort_flag
             THEN [ck EXCEPT !.pc = "done", !.status = "aborted",
                             !.reported = <<ck.i, ck.loop_count,
                                            ck.success_count, ck.fail_count>>]
             ELSE [ck EXCEPT !.pc = "loop_check2"]
    /\ UNCHANGED mainvars

\* line 930 second operand (execution_abort_flag), line 931
LC_Check2 ==
    /\ ck.pc = "loop_check2"
    /\ ck' = IF execution_abort_flag
             THEN [ck EXCEPT !.pc = "done", !.status = "aborted",
                             !.reported = <<ck.i, ck.loop_count,
                                            ck.success_count, ck.fail_count>>]
             ELSE [ck EXCEPT !.pc = "loop_turn"]
    /\ UNCHANGED mainvars

\* lines 933-960: the ladder of one turn on the screen of that moment, the
\* tallies, the progress report through add_result, the interval
LC_Turn ==
    /\ ck.pc = "loop_turn" /\ lock = "free"
    /\ \E s \in LoopSimilarities :
          LET hit == LadderHit(s, ck.confidence, ck.min_confidence)
              tally == count_turn(hit # NotFoundConf,
                                  [success_count |-> ck.success_count,
                                   fail_count |-> ck.fail_count])
          IN  ck' = [ck EXCEPT
                       !.clicked_at = IF hit # NotFoundConf
                                      THEN @ \cup {hit} ELSE @,
                       !.success_count = tally.success_count,
                       !.fail_count = tally.fail_count,
                       !.turns = @ + 1,
                       !.progress = IF ReportsProgress(ck.i, ck.loop_count)
                                    THEN Append(@, ck.i + 1) ELSE @,
                       !.naps = IF ck.i < ck.loop_count - 1
                                THEN Append(@, ck.loop_interval) ELSE @,
                       !.i = @ + 1,
                       !.pc = "loop_check"]
    /\ IF ReportsProgress(ck.i, ck.loop_count)
       THEN /\ results' = add_result_log(results, "info")
            /\ current_step' = add_result_step(results')
       ELSE UNCHANGED <<results, current_step>>
    /\ UNCHANGED <<is_running, abort_flag, execution_id, total_steps, completed,
                   lock, execution_abort_flag, loopvars, workervars, histvars>>

NextHandlers ==
    \/ CK_Start \/ CK_Probe \/ CK_PassEnd \/ CK_Diagnose
    \/ CO_Start \/ CO_Probe \/ CO_PassEnd \/ CO_Diagnose
    \/ LC_Start \/ LC_Check \/ LC_Check2 \/ LC_Turn
    \/ AbortBegin \/ AbortState

SpecHandlers == InitHandlers /\ [][NextHandlers]_vars

ClickKinds == {"click", "click_or"}

\* the probe at the target confidence fails for every template of the handler
TargetProbeFails ==
    IF ck.handler = "click" THEN ~Probe(ck.similarity, ck.confidence)
    ELSE \A k \in 1..Len(ck.image_names) :
            ck.image_names[k].exists =>
                ~Probe(ck.image_names[k].similarity, ck.confidence)

\* a success that carries the reduced-precision note clicked strictly below
\* the target, after the probe at the target failed
NoteOnlyBelowTarget ==
    (ck.handler \in ClickKinds /\ ck.status = "success" /\ ck.stepped_down) =>
        /\ \A th \in ck.clicked_at : th < ck.confidence
        /\ TargetProbeFails

DiagHits(s, min_confidence) ==
    {th \in {min_confidence}
            \cup {test_confidences[k] : k \in 1..Len(test_confidences)} :
        th <= min_confidence /\ Probe(s, th)}

\* the report names the highest such threshold, in percent, or "below 30%"
ReportAsClaimed(d, s, min_confidence) ==
    IF DiagHits(s, min_confidence) = {}
    THEN d.kind = "below_30" /\ s < 300
    ELSE /\ d.kind = "percent"
         /\ d.value * 10 = Max(DiagHits(s, min_confidence))
         /\ d.value * 10 <= min_confidence

\* C12 (as claimed): a not_found of execute_click or execute_click_or has
\* clicked nothing and reports, for every template whose file exists, the
\* highest threshold of the diagnostic pass at which it was found, at most
\* min_confidence, or "below 30%".
C12_DiagnosticReport ==
    (ck.pc = "done" /\ ck.handler \in ClickKinds /\ ck.status = "not_found") =>
       /\ ck.clicked_at = {}
       /\ ck.handler = "click" =>
             ReportAsClaimed(ck.detail, ck.similarity, ck.min_confidence)
       /\ ck.handler = "click_or" =>
             \A k \in 1..Len(ck.image_names) :
                ck.image_names[k].exists =>
                    ReportAsClaimed(ck.details[k],
                                    ck.image_names[k].similarity,
                                    ck.min_confidence)

\* C13: an aborted execute_loop_click reports the number of completed turns
\* over loop_count, its two tallies add up to that number, which is below
\* loop_count, and the handler does nothing after the checkpoint.
C13_AbortedLoopReport ==
    /\ []((ck.handler = "loop_click" /\ ck.status = "aborted") =>
            /\ ck.reported[1] = ck.turns
            /\ ck.reported[2] = ck.loop_count
            /\ ck.reported[3] + ck.reported[4] = ck.turns
            /\ ck.turns < ck.loop_count)
    /\ [][(ck.handler = "loop_click" /\ ck.status = "aborted")
            => ck' = ck]_vars

\* a loop aborted after several turns, some with and some without a click
C13_Witness ==
    /\ ck.handler = "loop_click" /\ ck.status = "aborted"
    /\ ck.turns >= 3 /\ ck.reported[3] > 0 /\ ck.reported[4] > 0

\* C16 (as claimed): once the cancel request is received, execute_click and
\* execute_click_or start no further ladder pass and issue no click.
C16_CancelStopsRetries ==
    /\ [][(ck.handler \in ClickKinds /\ execution_abort_flag
             /\ ck'.retry > ck.retry)
            => ck'.pc \notin {"ladder", "or_ladder"}]_vars
    /\ [][(ck.handler \in ClickKinds /\ execution_abort_flag)
            => ck'.clicked_at = ck.clicked_at]_vars

----------------------------------------------------------------------------
\* Templates without a file

\* C21 (as claimed), for the handlers that click: execute_click,
\* execute_click_or and execute_loop_click given a template name that has no
\* file in IMAGES_DIR return error at once: no probe, no click, no further
\* pass, no sleep, no turn.
C21_UnknownTemplateIsError ==
    /\ (ck.handler = "click" /\ ck.named /\ ~ck.exists) =>
          /\ ck.ladder = {} /\ ck.clicked_at = {}
          /\ ck.retry = 0 /\ ck.sleeps = 0
          /\ ck.pc = "done" => ck.status = "error"
    /\ (ck.handler = "loop_click" /\ ck.named /\ ~ck.exists) =>
          /\ ck.turns = 0 /\ ck.clicked_at = {}
          /\ ck.pc = "done" => ck.status = "error"
    /\ (ck.handler = "click_or"
          /\ \E k \in 1..Len(ck.image_names) : ~ck.image_names[k].exists) =>
          /\ ck.clicks = 0 /\ ck.retry = 0 /\ ck.sleeps = 0
          /\ ck.pc = "done" => ck.status = "error"

----------------------------------------------------------------------------
\* execute_save_to_file (844-911) on its own.  A text is a sequence of
\* characters; the transcript file is the sequence of clipboard contents
\* appended to it so far.

MaxTextLen == 2          \* longest snippet text and clipboard content

Chars == {"a", "b", " "}
Texts == UNION {[1..n -> Chars] : n \in 0..MaxTextLen}
FileInputs == {[exists |-> FALSE, blocks |-> <<>>],
               [exists |-> TRUE, blocks |-> << <<"b">> >>]}

\* str.strip(): the text without its leading and trailing whitespace
RECURSIVE strip(_)
strip(s) ==
    IF s = <<>> THEN s
    ELSE IF Head(s) = " " THEN strip(Tail(s))
    ELSE IF s[Len(s)] = " " THEN strip(SubSeq(s, 1, Len(s) - 1))
    ELSE s

\* mutant: only the empty clipboard is refused
clipboard_empty_only(clipboard_content) == clipboard_content = <<>>

\* line 884: "not clipboard_content or not clipboard_content.strip()"
clipboard_empty(clipboard_content) ==
    clipboard_content = <<>> \/ strip(clipboard_content) = <<>>

\* line 888: "text_content and clipboard_content.strip() == text_content.strip()";
\* text_content is None when text_id names no snippet (858-863)
same_as_prompt(clipboard_content, known, text_content) ==
    /\ known /\ text_content # <<>>
    /\ strip(clipboard_content) = strip(text_content)

InitSave ==
    /\ InHandler("save_to_file")
    /\ \E known \in BOOLEAN, text \in Texts, f \in FileInputs :
          /\ ~known => text = <<>>
          /\ ck = [handler |-> "save_to_file", pc |-> "save_start",
                   known |-> known, text_content |-> text,
                   pasted |-> FALSE, clipboard_content |-> <<>>,
                   file0 |-> f, file |-> f, raised |-> FALSE,
                   status |-> "none"]

\* lines 857-875: the snippet text, the file name, the day's directory;
\* mkdir is outside any try, its exception is recorded by the executor (479)
SV_Start ==
    /\ ck.pc = "save_start"
    /\ \/ ck' = [ck EXCEPT !.pc = "save_paste"]
       \/ ck' = [ck EXCEPT !.pc = "done", !.status = "error", !.raised = TRUE]
    /\ UNCHANGED mainvars

\* lines 878-881: read the clipboard
SV_Paste ==
    /\ ck.pc = "save_paste"
    /\ \/ \E c \in Texts :
             ck' = [ck EXCEPT !.pc = "save_check", !.pasted = TRUE,
                              !.clipboard_content = c]
       \/ ck' = [ck EXCEPT !.pc = "done", !.status = "error"]
    /\ UNCHANGED mainvars

\* lines 884-889: the two refusals
SV_Check ==
    /\ ck.pc = "save_check"
    /\ ck' = IF clipboard_empty(ck.clipboard_content)
             THEN [ck EXCEPT !.pc = "done", !.status = "error"]
             ELSE IF same_as_prompt(ck.clipboard_content, ck.known,
                                    ck.text_content)
             THEN [ck EXCEPT !.pc = "done", !.status = "error"]
             ELSE [ck EXCEPT !.pc = "save_write"]
    /\ UNCHANGED mainvars

\* lines 892-911: append the block; a file that cannot be opened is an error
SV_Write ==
    /\ ck.pc = "save_write"
    /\ \/ ck' = [ck EXCEPT !.pc = "done", !.status = "success",
                           !.file = [exists |-> TRUE,
                                     blocks |-> Append(ck.file.blocks,
                                                       ck.clipboard_content)]]
       \/ ck' = [ck EXCEPT !.pc = "done", !.status = "error"]
    /\ UNCHANGED mainvars

NextSave == SV_Start \/ SV_Paste \/ SV_Check \/ SV_Write

SpecSave == InitSave /\ [][NextSave]_vars

\* the text has no character other than whitespace
Blank(s) == \A k \in 1..Len(s) : s[k] = " "

----------------------------------------------------------------------------
\* execute_click (547-585) on a screen that changes while the handler runs:
\* between two probes, and during the backoff, the similarity of the template
\* on screen may become any other.

RetryConfidences == {<<760, 700>>, <<719, 700>>, <<720, 570>>, <<600, 700>>}
RetrySimilarities == {0, 650, 700, 800}

InitRetry ==
    /\ InHandler("click")
    /\ \E cm \in RetryConfidences, s \in RetrySimilarities,
          named \in BOOLEAN, exists \in BOOLEAN :
          ck = [handler |-> "click", detail |-> [kind |-> "none"],
                pc |-> "start", confidence |-> cm[1], min_confidence |-> cm[2],
                similarity |-> s, named |-> named, exists |-> exists,
                retry |-> 0, current_conf |-> cm[1], ladder |-> {},
                probes |-> 0, clicked_at |-> {}, sleeps |-> 0,
                stepped_down |-> FALSE, found_conf |-> NotFoundConf,
                status |-> "none"]

\* the desktop changes under the running handler
ScreenChanges ==
    /\ ck.pc \in {"ladder", "diagnose"}
    /\ \E s \in RetrySimilarities \ {ck.similarity} :
          ck' = [ck EXCEPT !.similarity = s]
    /\ UNCHANGED mainvars

NextRetry == CK_Start \/ CK_Probe \/ CK_PassEnd \/ CK_Diagnose \/ ScreenChanges

SpecRetry == InitRetry /\ [][NextRetry]_vars

\* the number of probes of one full ladder pass
PassLength == Cardinality(LadderSet(ck.confidence, ck.min_confidence))

----------------------------------------------------------------------------
\* execute_loop_click (914-962) called with any loop_count and loop_interval,
\* while POST /api/abort is served on the event loop

MaxLoopCount == 12       \* largest loop_count the handler is called with

LoopCounts == 0..MaxLoopCount
LoopIntervals == {0, 10}

InitLoop ==
    /\ InHandler("loop_click")
    /\ \E cm \in LoopConfidences, n \in LoopCounts, d \in LoopIntervals :
          ck = [handler |-> "loop_click", pc |-> "loop_start",
                confidence |-> cm[1], min_confidence |-> cm[2],
                named |-> TRUE, exists |-> TRUE,
                loop_count |-> n, loop_interval |-> d, i |-> 0,
                success_count |-> 0, fail_count |-> 0, turns |-> 0,
                progress |-> <<>>, naps |-> <<>>,
                clicked_at |-> {}, stepped_down |-> FALSE,
                reported |-> <<>>, status |-> "none"]

NextLoop ==
    \/ LC_Start \/ LC_Check \/ LC_Check2 \/ LC_Turn
    \/ AbortBegin \/ AbortState

SpecLoop == InitLoop /\ [][NextLoop]_vars

\* no cancel request was made since the handler was called
Uncancelled == ~abort_flag /\ ~execution_abort_flag /\ hpc = "idle"

\* the turns, counted from 1, after which progress is due
ProgressDue(k, n) ==
    {j \in 1..k : j = 1 \/ j % ProgressEvery = 0 \/ j = n}

\* C24: execute_loop_click(loop_count = n) has appended, after k turns, one
\* info outcome for each turn j <= k with j = 1, j a multiple of 10 or j = n,
\* in that order and no other; it has slept loop_interval after every turn
\* but turn n; uncancelled it ends in success after n turns with
\* success_count + fail_count = n.
C24_LoopProgressAndTallies ==
    ck.handler = "loop_click" =>
       /\ {ck.progress[a] : a \in 1..Len(ck.progress)}
             = ProgressDue(ck.turns, ck.loop_count)
       /\ \A a, b \in 1..Len(ck.progress) : a < b => ck.progress[a] < ck.progress[b]
       /\ results = [a \in 1..Len(ck.progress) |-> "info"]
       /\ Len(ck.naps) = IF ck.turns < ck.loop_count THEN ck.turns
                         ELSE IF ck.loop_count > 0 THEN ck.loop_count - 1 ELSE 0
       /\ \A a \in 1..Len(ck.naps) : ck.naps[a] = ck.loop_interval
       /\ ck.status = "success" =>
             /\ ck.turns = ck.loop_count
             /\ ck.success_count + ck.fail_count = ck.turns
       /\ (ck.pc = "done" /\ ck.named /\ ck.exists /\ Uncancelled) =>
             ck.status = "success"

\* an uncancelled loop of 11 turns reported after the turns 1, 10 and 11
C24_Witness ==
    /\ ck.handler = "loop_click" /\ ck.pc = "done" /\ ck.status = "success"
    /\ Uncancelled /\ ck.loop_count = 11
    /\ ck.progress = <<1, 10, 11>> /\ Len(ck.naps) = 10
    /\ ck.success_count > 0 /\ ck.fail_count > 0

\* C25 (as claimed): the handler of a posted loop_click action that carries
\* loop_count n and loop_interval d runs with that n and that d, and
\* uncancelled it makes exactly n turns with d slept between them.
C25_LoopParametersPassed ==
    (ck.handler = "loop_click" /\ ck.pc # "loop_start"
        /\ "loop_count" \in DOMAIN ck.sent) =>
       /\ ck.loop_count = ck.sent.loop_count
       /\ ck.loop_interval = ck.sent.loop_interval
       /\ ck.status = "success" =>
             /\ ck.turns = ck.sent.loop_count
             /\ \A a \in 1..Len(ck.naps) : ck.naps[a] = ck.sent.loop_interval

----------------------------------------------------------------------------
\* The outcome log as the polling client sees it

IsPrefix(s, t) == Len(s) <= Len(t) /\ SubSeq(t, 1, Len(s)) = s

\* the step is the successful claim of ExecutionState.start
ClaimStep == hpc = "exec_claim" /\ hpc' = "exec_spawn"

\* C26: within a run (execution_id unchanged) every step leaves the log as it
\* was or extends it at the end, so the log of a snapshot is a prefix of the
\* log at every later moment of the run and of every later snapshot; the
\* steps of finish() and of the abort handler change neither the log nor
\* current_step; the log is cut and current_step lowered only by a
\* successful claim, which sets them to empty and 0.
C26_LogAppendOnly ==
    /\ [][execution_id' = execution_id => IsPrefix(results, results')]_vars
    /\ []((snap # NoSnap /\ snap.execution_id = execution_id) =>
            IsPrefix(snap.results, results))
    /\ [][(wpc \in {"finish", "finish_clear"} /\ wpc' # wpc) =>
            UNCHANGED <<results, current_step>>]_vars
    /\ [][((hpc = "abort_state" \/ hpc' = "abort_state") /\ hpc' # hpc) =>
            UNCHANGED <<results, current_step>>]_vars
    /\ [][(~IsPrefix(results, results') \/ current_step' < current_step) =>
            (ClaimStep /\ results' = <<>> /\ current_step' = 0)]_vars
    /\ [][ClaimStep => (results' = <<>> /\ current_step' = 0)]_vars

\* a snapshot taken in mid-run and not yet delivered; the log has grown since
\* and the run has finished
C26_Witness ==
    /\ snap # NoSnap /\ snap.execution_id = execution_id /\ snap.is_running
    /\ Len(snap.results) >= 1 /\ Len(results) > Len(snap.results)
    /\ completed

\* C27 (as claimed): in every snapshot get_status returns, current_step is at
\* most total_steps.
C27_StepWithinTotal ==
    snap # NoSnap => snap.current_step <= snap.total_steps

\* no cancel request was made since the claim of the run
NoCancelRequested == ~abort_flag /\ hpc # "abort_state"

\* the positions of the log that hold an outcome other than info
NonInfo == {k \in 1..Len(results) : results[k] # "info"}

C29_StaleCancelIsReset ==
    /\ [][ClaimStep => (~abort_flag' /\ ~execution_abort_flag')]_vars
    /\ [](observed => ~NoCancelRequested)
    /\ []((completed /\ NoCancelRequested) => Count(results, "aborted") = 0)

\* a cancel request was served before any run; now the first start request
\* is being served: line 488 has reset the legacy flag and start() is about
\* to claim the slot with abort_flag still set
C29_Witness ==
    /\ hpc = "exec_claim" /\ ~is_running /\ execution_id = 0
    /\ abort_flag /\ ~execution_abort_flag

====
